---- MODULE Spec2Model ----
(***************************************************************************)
(* Model of charon's configuration_manager_t                               *)
(* (Source/charon/config/configuration_manager.c): the registry of named   *)
(* IKE_SA configurations, the three credential lists and the retransmit    *)
(* timing, as a state machine over one manager object.                     *)
(***************************************************************************)
EXTENDS Integers, Sequences, FiniteSets, TLC

VARIABLES
    this,         \* the private_configuration_manager_t object
    freed,        \* TRUE once destroy() has run on the manager
    ret,          \* the last call: operation, arguments, status, out parameter
    destroy_log,  \* the destroy/free calls destroy() made, in order
    threads       \* per worker thread: the lookup it is executing and its position

vars == <<this, freed, ret, destroy_log, threads>>

(***************************************************************************)
(* Bounds of the model.                                                    *)
(***************************************************************************)
\* longest configurations list (the default entry included)
MaxEntries == 3
\* most credential entries added after the default ones, over the three lists
MaxCreds == 3
\* width in bits of the model's u_int32_t / int (scaled down)
WordBits == 4
\* longest preshared secret string
MaxSecretLen == 2

(***************************************************************************)
(* Values handed in by callers: hosts, identifications, policy objects.    *)
(***************************************************************************)
HostAddrs == <<"0.0.0.0", "127.0.0.1", "192.168.1.2">>

Hosts == {HostAddrs[i] : i \in 1..Len(HostAddrs)}

\* host_t.is_default_route: the address is 0.0.0.0
is_default_route(host) == host = "0.0.0.0"

\* host_t.ip_is_equal: same address
ip_is_equal(host, other) == host = other

\* identification_create_from_string(type, id_string)
identification_create_from_string(type, id_string) ==
    [type |-> type, encoded |-> id_string]

\* the NULL identification_t pointer
NULL_ID == [type |-> "NULL", encoded |-> ""]

\* identification_t.equals: same type and same encoding
id_equals(id, other) == id.type = other.type /\ id.encoded = other.encoded

ID_LOCALHOST == identification_create_from_string("ID_IPV4_ADDR", "127.0.0.1")

ID_PEER == identification_create_from_string("ID_IPV4_ADDR", "192.168.1.2")

ID_FQDN_LOCALHOST == identification_create_from_string("ID_FQDN", "127.0.0.1")

Identifications == {ID_LOCALHOST, ID_PEER, ID_FQDN_LOCALHOST}

\* The init_config_t objects that exist, by address.  Object 0 is the one
\* load_default_config creates; objects 1..9 carry every pair of hosts, so
\* object 4 has the same hosts as object 0 and is a different object.
InitConfigObjects == 0..9

init_config_my_host(ic) ==
    IF ic = 0 THEN "0.0.0.0" ELSE HostAddrs[((ic - 1) % 3) + 1]

init_config_other_host(ic) ==
    IF ic = 0 THEN "127.0.0.1" ELSE HostAddrs[((ic - 1) \div 3) + 1]

\* The sa_config_t objects that exist, by address.  Object 0 is the one
\* load_default_config creates; object 1 has the same identities as object 0.
SaConfigObjects == 0..5

sa_config_my_id(sc) ==
    CASE sc \in {0, 1, 3, 5} -> ID_LOCALHOST
      [] sc \in {2, 4} -> ID_PEER

sa_config_other_id(sc) ==
    CASE sc \in {0, 1, 2} -> ID_LOCALHOST
      [] sc \in {3, 4} -> ID_PEER
      [] sc = 5 -> ID_FQDN_LOCALHOST

(***************************************************************************)
(* Sequence helpers for linked_list_t.                                     *)
(***************************************************************************)
Range(list) == {list[i] : i \in 1..Len(list)}

insert_first(list, item) == <<item>> \o list

insert_last(list, item) == Append(list, item)

(***************************************************************************)
(* configuration_entry_t and add_new_configuration.                        *)
(***************************************************************************)
configuration_entry_create(name, init_config, sa_config) ==
    [name |-> name, init_config |-> init_config, sa_config |-> sa_config]

\* the scan for an object already in an owned list, by pointer
list_found(list, object) == \E i \in 1..Len(list) : list[i] = object

\* mutant: the owned lists get the object on every call
add_new_configuration_no_scan(m, name, init_config, sa_config) ==
    [m EXCEPT
        !.init_configs = insert_first(m.init_configs, init_config),
        !.sa_configs = insert_first(m.sa_configs, sa_config),
        !.configurations = insert_last(m.configurations,
            configuration_entry_create(name, init_config, sa_config))]

add_new_configuration(m, name, init_config, sa_config) ==
    [m EXCEPT
        !.init_configs =
            IF ~list_found(m.init_configs, init_config)
            THEN insert_first(m.init_configs, init_config)
            ELSE m.init_configs,
        !.sa_configs =
            IF ~list_found(m.sa_configs, sa_config)
            THEN insert_first(m.sa_configs, sa_config)
            ELSE m.sa_configs,
        !.configurations = insert_last(m.configurations,
            configuration_entry_create(name, init_config, sa_config))]

(***************************************************************************)
(* Credential entries.  A C string is the sequence of its characters (all  *)
(* non-zero); in memory it is followed by the terminating zero byte.       *)
(***************************************************************************)
strlen(str) == Len(str)

\* the first len bytes at the address of a C string
memcpy(str, len) == SubSeq(str \o <<0>>, 1, len)

add_new_preshared_secret(m, type, id_string, preshared_secret) ==
    LET len == strlen(preshared_secret) + 1
        entry == [identification |-> identification_create_from_string(type, id_string),
                  preshared_secret |-> memcpy(preshared_secret, len)]
    IN  [m EXCEPT !.preshared_secrets = insert_last(m.preshared_secrets, entry)]

\* rsa_public_key_create() and set_key(key): the key object holds the key read
rsa_key_create(key_pos, key_len) == [key |-> key_pos, len |-> key_len]

add_new_rsa_public_key_as_private(m, type, id_string, key_pos, key_len) ==
    LET entry == [identification |-> identification_create_from_string(type, id_string),
                  private_key |-> rsa_key_create(key_pos, key_len)]
    IN  [m EXCEPT !.rsa_private_keys = insert_last(m.rsa_private_keys, entry)]

add_new_rsa_public_key(m, type, id_string, key_pos, key_len) ==
    LET entry == [identification |-> identification_create_from_string(type, id_string),
                  public_key |-> rsa_key_create(key_pos, key_len)]
    IN  [m EXCEPT !.rsa_public_keys = insert_last(m.rsa_public_keys, entry)]

add_new_rsa_private_key(m, type, id_string, key_pos, key_len) ==
    LET entry == [identification |-> identification_create_from_string(type, id_string),
                  private_key |-> rsa_key_create(key_pos, key_len)]
    IN  [m EXCEPT !.rsa_private_keys = insert_last(m.rsa_private_keys, entry)]

(***************************************************************************)
(* Construction: configuration_manager_create and load_default_config.     *)
\* mutant: the default public key is not added
load_default_config_no_public_key(m) ==
    LET m1 == add_new_configuration(m, "localhost", 0, 0)
    IN  add_new_rsa_private_key(m1, "ID_IPV4_ADDR", "127.0.0.1", "private_key_1", 1024)

(***************************************************************************)
load_default_config(m) ==
    LET m1 == add_new_configuration(m, "localhost", 0, 0)
        m2 == add_new_rsa_public_key(m1, "ID_IPV4_ADDR", "127.0.0.1", "public_key_1", 256)
    IN  add_new_rsa_private_key(m2, "ID_IPV4_ADDR", "127.0.0.1", "private_key_1", 1024)

configuration_manager_create(first_retransmit_timeout, max_retransmit_count, half_open_ike_sa_timeout) ==
    load_default_config(
        [configurations |-> <<>>,
         sa_configs |-> <<>>,
         init_configs |-> <<>>,
         preshared_secrets |-> <<>>,
         rsa_private_keys |-> <<>>,
         rsa_public_keys |-> <<>>,
         max_retransmit_count |-> max_retransmit_count,
         first_retransmit_timeout |-> first_retransmit_timeout,
         half_open_ike_sa_timeout |-> half_open_ike_sa_timeout])

(***************************************************************************)
(* Results of a lookup: the status and what was written through the out    *)
(* pointer (<<>> when nothing was written).                                *)
(***************************************************************************)
Success(value) == [status |-> "SUCCESS", out |-> <<value>>]

NotFound == [status |-> "NOT_FOUND", out |-> <<>>]

Failed == [status |-> "FAILED", out |-> <<>>]

(***************************************************************************)
(* get_init_config_for_host: the while loop over configurations, from      *)
(* position i on.                                                          *)
\* mutant: the wildcard-remote branch compares the local host only, without
\* the default-route test
RECURSIVE init_config_for_host_wildcard_local_equal(_, _, _, _)
init_config_for_host_wildcard_local_equal(configurations, i, my_host, other_host) ==
    IF i > Len(configurations) THEN NotFound
    ELSE
        LET entry == configurations[i]
            config_my_host == init_config_my_host(entry.init_config)
            config_other_host == init_config_other_host(entry.init_config)
            next == init_config_for_host_wildcard_local_equal(configurations, i + 1,
                                                              my_host, other_host)
        IN  IF ip_is_equal(config_other_host, other_host)
            THEN IF is_default_route(config_my_host) \/ ip_is_equal(config_my_host, my_host)
                 THEN Success(entry.init_config)
                 ELSE next
            ELSE IF is_default_route(config_other_host) /\ ip_is_equal(config_my_host, my_host)
                 THEN Success(entry.init_config)
                 ELSE next

(***************************************************************************)
RECURSIVE init_config_for_host_from(_, _, _, _)
init_config_for_host_from(configurations, i, my_host, other_host) ==
    IF i > Len(configurations) THEN NotFound
    ELSE
        LET entry == configurations[i]
            config_my_host == init_config_my_host(entry.init_config)
            config_other_host == init_config_other_host(entry.init_config)
            next == init_config_for_host_from(configurations, i + 1, my_host, other_host)
        IN  IF ip_is_equal(config_other_host, other_host)
            THEN IF is_default_route(config_my_host)
                 THEN Success(entry.init_config)
                 ELSE IF ip_is_equal(config_my_host, my_host)
                      THEN Success(entry.init_config)
                      ELSE next
            ELSE IF is_default_route(config_other_host)
                 THEN IF is_default_route(config_my_host)
                      THEN Success(entry.init_config)
                      ELSE IF ip_is_equal(config_my_host, my_host)
                           THEN Success(entry.init_config)
                           ELSE next
                 ELSE next

\* mutant: the loop has no break, the last matching entry wins
RECURSIVE init_config_for_host_last(_, _, _, _)
init_config_for_host_last(configurations, i, my_host, other_host) ==
    IF i < 1 THEN NotFound
    ELSE
        LET one == init_config_for_host_from(<<configurations[i]>>, 1, my_host, other_host)
        IN  IF one.status = "SUCCESS" THEN one
            ELSE init_config_for_host_last(configurations, i - 1, my_host, other_host)

get_init_config_for_host_no_break(m, my_host, other_host) ==
    init_config_for_host_last(m.configurations, Len(m.configurations), my_host, other_host)

\* mutant: a default-route local host accepts the entry whatever its remote host
RECURSIVE init_config_for_host_any_remote(_, _, _, _)
init_config_for_host_any_remote(configurations, i, my_host, other_host) ==
    IF i > Len(configurations) THEN NotFound
    ELSE
        LET entry == configurations[i]
            one == init_config_for_host_from(<<entry>>, 1, my_host, other_host)
        IN  IF one.status = "SUCCESS"
               \/ is_default_route(init_config_my_host(entry.init_config))
            THEN Success(entry.init_config)
            ELSE init_config_for_host_any_remote(configurations, i + 1, my_host, other_host)

get_init_config_for_host_any_remote(m, my_host, other_host) ==
    init_config_for_host_any_remote(m.configurations, 1, my_host, other_host)

\* mutant: entries whose remote host equals the observed one are preferred to
\* earlier entries with a default-route remote host
get_init_config_for_host_exact_first(m, my_host, other_host) ==
    LET exact(entry) == ip_is_equal(init_config_other_host(entry.init_config), other_host)
        found == init_config_for_host_from(SelectSeq(m.configurations, exact), 1,
                                           my_host, other_host)
    IN  IF found.status = "SUCCESS" THEN found
        ELSE init_config_for_host_from(m.configurations, 1, my_host, other_host)

get_init_config_for_host(m, my_host, other_host) ==
    init_config_for_host_from(m.configurations, 1, my_host, other_host)

(***************************************************************************)
(* get_init_config_for_name and get_sa_config_for_name.                    *)
(***************************************************************************)
\* strcmp of two C strings: 0 exactly when they are the same string
strcmp(s1, s2) == IF s1 = s2 THEN 0 ELSE 1

RECURSIVE init_config_for_name_from(_, _, _)
init_config_for_name_from(configurations, i, name) ==
    IF i > Len(configurations) THEN NotFound
    ELSE
        LET entry == configurations[i]
        IN  IF strcmp(entry.name, name) = 0
            THEN Success(entry.init_config)
            ELSE init_config_for_name_from(configurations, i + 1, name)

get_init_config_for_name(m, name) ==
    init_config_for_name_from(m.configurations, 1, name)

RECURSIVE sa_config_for_name_from(_, _, _)
sa_config_for_name_from(configurations, i, name) ==
    IF i > Len(configurations) THEN NotFound
    ELSE
        LET entry == configurations[i]
        IN  IF strcmp(entry.name, name) = 0
            THEN Success(entry.sa_config)
            ELSE sa_config_for_name_from(configurations, i + 1, name)

\* mutant: the loop has no break, the last entry of the name wins
RECURSIVE sa_config_for_name_last(_, _, _)
sa_config_for_name_last(configurations, i, name) ==
    IF i < 1 THEN NotFound
    ELSE
        LET entry == configurations[i]
        IN  IF strcmp(entry.name, name) = 0
            THEN Success(entry.sa_config)
            ELSE sa_config_for_name_last(configurations, i - 1, name)

get_sa_config_for_name_no_break(m, name) ==
    sa_config_for_name_last(m.configurations, Len(m.configurations), name)

get_sa_config_for_name(m, name) ==
    sa_config_for_name_from(m.configurations, 1, name)

(***************************************************************************)
(* get_sa_config_for_init_config_and_id.                                   *)
(***************************************************************************)
RECURSIVE sa_config_from(_, _, _, _, _)
sa_config_from(configurations, i, init_config, other_id, my_id) ==
    IF i > Len(configurations) THEN NotFound
    ELSE
        LET entry == configurations[i]
            config_my_id == sa_config_my_id(entry.sa_config)
            config_other_id == sa_config_other_id(entry.sa_config)
            next == sa_config_from(configurations, i + 1, init_config, other_id, my_id)
        IN  IF entry.init_config = init_config
            THEN IF id_equals(config_other_id, other_id)
                 THEN IF my_id = NULL_ID
                      THEN Success(entry.sa_config)
                      ELSE IF id_equals(config_my_id, my_id)
                           THEN Success(entry.sa_config)
                           ELSE next
                 ELSE next
            ELSE next

\* mutant: the init_config of an entry is not compared
RECURSIVE sa_config_any_init_config(_, _, _, _, _)
sa_config_any_init_config(configurations, i, init_config, other_id, my_id) ==
    IF i > Len(configurations) THEN NotFound
    ELSE
        LET entry == configurations[i]
            one == sa_config_from(<<entry>>, 1, entry.init_config, other_id, my_id)
        IN  IF one.status = "SUCCESS" THEN one
            ELSE sa_config_any_init_config(configurations, i + 1, init_config, other_id, my_id)

get_sa_config_any_init_config(m, init_config, other_id, my_id) ==
    sa_config_any_init_config(m.configurations, 1, init_config, other_id, my_id)

\* mutant: my_id is never compared, as if it were NULL
get_sa_config_ignore_my_id(m, init_config, other_id, my_id) ==
    sa_config_from(m.configurations, 1, init_config, other_id, NULL_ID)

\* mutant: an entry that matches on init_config and remote identity but not on
\* the local identity ends the scan
RECURSIVE sa_config_stop_from(_, _, _, _, _)
sa_config_stop_from(configurations, i, init_config, other_id, my_id) ==
    IF i > Len(configurations) THEN NotFound
    ELSE
        LET entry == configurations[i]
            next == sa_config_stop_from(configurations, i + 1, init_config, other_id, my_id)
        IN  IF /\ entry.init_config = init_config
               /\ id_equals(sa_config_other_id(entry.sa_config), other_id)
            THEN IF my_id = NULL_ID \/ id_equals(sa_config_my_id(entry.sa_config), my_id)
                 THEN Success(entry.sa_config)
                 ELSE NotFound
            ELSE next

get_sa_config_stop_at_remote_match(m, init_config, other_id, my_id) ==
    sa_config_stop_from(m.configurations, 1, init_config, other_id, my_id)

get_sa_config_for_init_config_and_id(m, init_config, other_id, my_id) ==
    sa_config_from(m.configurations, 1, init_config, other_id, my_id)

(***************************************************************************)
(* Credential lookups: get_shared_secret, get_rsa_public_key,              *)
(* get_rsa_private_key.                                                    *)
(***************************************************************************)
RECURSIVE shared_secret_from(_, _, _)
shared_secret_from(preshared_secrets, i, identification) ==
    IF i > Len(preshared_secrets) THEN NotFound
    ELSE
        LET entry == preshared_secrets[i]
        IN  IF id_equals(entry.identification, identification)
            THEN Success(entry.preshared_secret)
            ELSE shared_secret_from(preshared_secrets, i + 1, identification)

\* mutant: the scan does not stop at the first entry found
RECURSIVE shared_secret_last(_, _, _)
shared_secret_last(preshared_secrets, i, identification) ==
    IF i < 1 THEN NotFound
    ELSE
        LET entry == preshared_secrets[i]
        IN  IF id_equals(entry.identification, identification)
            THEN Success(entry.preshared_secret)
            ELSE shared_secret_last(preshared_secrets, i - 1, identification)

get_shared_secret_last(m, identification) ==
    shared_secret_last(m.preshared_secrets, Len(m.preshared_secrets), identification)

get_shared_secret(m, identification) ==
    shared_secret_from(m.preshared_secrets, 1, identification)

RECURSIVE rsa_public_key_from(_, _, _)
rsa_public_key_from(rsa_public_keys, i, identification) ==
    IF i > Len(rsa_public_keys) THEN NotFound
    ELSE
        LET entry == rsa_public_keys[i]
        IN  IF id_equals(entry.identification, identification)
            THEN Success(entry.public_key)
            ELSE rsa_public_key_from(rsa_public_keys, i + 1, identification)

\* mutant: the out pointer is written before the identification is compared
get_rsa_public_key_write_first(m, identification) ==
    LET found == rsa_public_key_from(m.rsa_public_keys, 1, identification)
    IN  IF found.status = "NOT_FOUND" /\ m.rsa_public_keys # <<>>
        THEN [found EXCEPT !.out = <<m.rsa_public_keys[Len(m.rsa_public_keys)].public_key>>]
        ELSE found

get_rsa_public_key(m, identification) ==
    rsa_public_key_from(m.rsa_public_keys, 1, identification)

RECURSIVE rsa_private_key_from(_, _, _)
rsa_private_key_from(rsa_private_keys, i, identification) ==
    IF i > Len(rsa_private_keys) THEN NotFound
    ELSE
        LET entry == rsa_private_keys[i]
        IN  IF id_equals(entry.identification, identification)
            THEN Success(entry.private_key)
            ELSE rsa_private_key_from(rsa_private_keys, i + 1, identification)

get_rsa_private_key(m, identification) ==
    rsa_private_key_from(m.rsa_private_keys, 1, identification)

(***************************************************************************)
(* Timing.  u_int32_t and int are WordBits wide.  The loop of              *)
(* get_retransmit_timeout doubles a signed int and counts with a signed    *)
(* int: an overflow of either is undefined behaviour, after which any      *)
(* value may be stored in *timeout.                                        *)
(***************************************************************************)
Modulus == 2 ^ WordBits

INT_MAX == 2 ^ (WordBits - 1) - 1

INT_MIN == 0 - 2 ^ (WordBits - 1)

UInts == 0..(Modulus - 1)

\* conversion u_int32_t -> int
to_int(u) == IF u > INT_MAX THEN u - Modulus ELSE u

\* conversion int -> u_int32_t
to_uint(v) == v % Modulus

in_int(v) == INT_MIN <= v /\ v <= INT_MAX

\* for (i = 0; i < retransmit_count; i++) new_timeout *= 2;
RECURSIVE retransmit_loop(_, _, _)
retransmit_loop(new_timeout, i, retransmit_count) ==
    IF ~(i < retransmit_count) THEN [undefined |-> FALSE, new_timeout |-> new_timeout]
    ELSE IF ~in_int(new_timeout * 2) \/ ~in_int(i + 1)
         THEN [undefined |-> TRUE, new_timeout |-> 0]
         ELSE retransmit_loop(new_timeout * 2, i + 1, retransmit_count)

\* mutant: a count equal to the maximum is rejected too
get_retransmit_timeout_ge(m, retransmit_count) ==
    IF retransmit_count >= m.max_retransmit_count /\ m.max_retransmit_count # 0
    THEN {Failed}
    ELSE LET r == retransmit_loop(to_int(m.first_retransmit_timeout), 0, retransmit_count)
         IN  IF r.undefined THEN {Success(t) : t \in UInts}
             ELSE {Success(to_uint(r.new_timeout))}

\* the results get_retransmit_timeout may give
get_retransmit_timeout(m, retransmit_count) ==
    IF retransmit_count > m.max_retransmit_count /\ m.max_retransmit_count # 0
    THEN {Failed}
    ELSE LET r == retransmit_loop(to_int(m.first_retransmit_timeout), 0, retransmit_count)
         IN  IF r.undefined THEN {Success(t) : t \in UInts}
             ELSE {Success(to_uint(r.new_timeout))}

get_half_open_ike_sa_timeout(m) == m.half_open_ike_sa_timeout

(***************************************************************************)
(* destroy: the calls it makes, in order, and the manager it leaves.       *)
(***************************************************************************)
destroy_calls(kind, list) == [i \in 1..Len(list) |-> [kind |-> kind, object |-> list[i]]]

destroy_credentials_first(m) ==
    destroy_calls("preshared_secret_entry_t", m.preshared_secrets)
    \o destroy_calls("rsa_private_key_entry_t", m.rsa_private_keys)
    \o destroy_calls("rsa_public_key_entry_t", m.rsa_public_keys)
    \o destroy_calls("sa_config_t", m.sa_configs)
    \o destroy_calls("init_config_t", m.init_configs)
    \o destroy_calls("configuration_entry_t", m.configurations)

destroy(m) ==
    destroy_calls("configuration_entry_t", m.configurations)
    \o destroy_calls("sa_config_t", m.sa_configs)
    \o destroy_calls("init_config_t", m.init_configs)
    \o destroy_calls("preshared_secret_entry_t", m.preshared_secrets)
    \o destroy_calls("rsa_private_key_entry_t", m.rsa_private_keys)
    \o destroy_calls("rsa_public_key_entry_t", m.rsa_public_keys)

destroyed(m) ==
    [m EXCEPT !.configurations = <<>>, !.sa_configs = <<>>, !.init_configs = <<>>,
              !.preshared_secrets = <<>>, !.rsa_private_keys = <<>>,
              !.rsa_public_keys = <<>>]

(***************************************************************************)
(* Inputs of the calls.                                                    *)
(***************************************************************************)
\* configuration names
Names == {"localhost", "peer", "local"}

\* the preshared secret strings: up to MaxSecretLen characters 'a'
Secrets == {[i \in 1..n |-> 97] : n \in 0..MaxSecretLen}

IdArgs == {<<id.type, id.encoded>> : id \in Identifications}

PublicKeys == {<<"public_key_1", 256>>, <<"public_key_2", 256>>}

PrivateKeys == {<<"private_key_1", 1024>>, <<"private_key_2", 1024>>}

\* first_retransmit_timeout values the manager is created with: small ones
\* and the ones around the ends of int
FirstRetransmitTimeouts ==
    {0, 1, 3, 2 ^ (WordBits - 2), INT_MAX, INT_MAX + 1, Modulus - 1}

\* max_retransmit_count values the manager is created with
MaxRetransmitCounts == {0, 1, 3, Modulus - 1}

Call(op, args, result) ==
    [op |-> op, args |-> args, status |-> result.status, out |-> result.out]

Void == [status |-> "VOID", out |-> <<>>]

CredCount(m) ==
    Len(m.preshared_secrets) + Len(m.rsa_public_keys) + Len(m.rsa_private_keys)

(***************************************************************************)
(* Initial states: the manager configuration_manager_create returns.       *)
(***************************************************************************)
\* the worker threads of the daemon that use the manager
Threads == {"t1", "t2"}

\* a thread the manager has not been handed to
Unstarted == [pc |-> "unstarted"]

InitWith(first_timeouts, max_counts, half_open_timeouts) ==
    /\ \E first \in first_timeouts, max \in max_counts, half \in half_open_timeouts :
           this = configuration_manager_create(first, max, half)
    /\ freed = FALSE
    /\ ret = Call("configuration_manager_create", <<>>, Void)
    /\ destroy_log = <<>>
    /\ threads = [t \in Threads |-> Unstarted]

Init == InitWith({1}, {3}, {Modulus - 1})

InitTiming == InitWith(FirstRetransmitTimeouts, MaxRetransmitCounts, {Modulus - 1})

(***************************************************************************)
(* Actions: one per operation of the manager.                              *)
(***************************************************************************)
AddNewConfigurationOf(names, init_config_set, sa_config_set) ==
    /\ ~freed
    /\ Len(this.configurations) < MaxEntries
    /\ \E name \in names, init_config \in init_config_set, sa_config \in sa_config_set :
           /\ this' = add_new_configuration(this, name, init_config, sa_config)
           /\ ret' = Call("add_new_configuration", <<name, init_config, sa_config>>, Void)
    /\ UNCHANGED <<freed, destroy_log, threads>>

\* configurations that differ in their init_config (all host pairs)
AddHostConfiguration == AddNewConfigurationOf({"peer"}, InitConfigObjects, {0})

\* configurations that differ in their sa_config, over two equal init_configs
AddSaConfiguration == AddNewConfigurationOf({"peer"}, {0, 4}, SaConfigObjects)

AddNewPresharedSecretOf(ids, secrets) ==
    /\ ~freed
    /\ CredCount(this) < MaxCreds + 2
    /\ \E id \in ids, preshared_secret \in secrets :
           /\ this' = add_new_preshared_secret(this, id[1], id[2], preshared_secret)
           /\ ret' = Call("add_new_preshared_secret", <<id[1], id[2], preshared_secret>>, Void)
    /\ UNCHANGED <<freed, destroy_log, threads>>

AddNewRsaPublicKeyOf(ids, keys) ==
    /\ ~freed
    /\ CredCount(this) < MaxCreds + 2
    /\ \E id \in ids, key \in keys :
           /\ this' = add_new_rsa_public_key(this, id[1], id[2], key[1], key[2])
           /\ ret' = Call("add_new_rsa_public_key", <<id[1], id[2], key[1], key[2]>>, Void)
    /\ UNCHANGED <<freed, destroy_log, threads>>

AddNewRsaPrivateKeyOf(ids, keys) ==
    /\ ~freed
    /\ CredCount(this) < MaxCreds + 2
    /\ \E id \in ids, key \in keys :
           /\ this' = add_new_rsa_private_key(this, id[1], id[2], key[1], key[2])
           /\ ret' = Call("add_new_rsa_private_key", <<id[1], id[2], key[1], key[2]>>, Void)
    /\ UNCHANGED <<freed, destroy_log, threads>>

AddNewPresharedSecret == AddNewPresharedSecretOf(IdArgs, Secrets)

AddNewRsaPublicKey == AddNewRsaPublicKeyOf(IdArgs, PublicKeys)

AddNewRsaPrivateKey == AddNewRsaPrivateKeyOf(IdArgs, PrivateKeys)

\* the calls of a loader that adds a peer: two configurations and one
\* credential of each kind
AddPeerConfiguration == AddNewConfigurationOf({"peer"}, {7}, {0, 2})

AddPeerPresharedSecret ==
    AddNewPresharedSecretOf({<<"ID_IPV4_ADDR", "192.168.1.2">>}, {<<97>>})

AddPeerRsaPublicKey ==
    AddNewRsaPublicKeyOf({<<"ID_IPV4_ADDR", "192.168.1.2">>}, {<<"public_key_2", 256>>})

AddPeerRsaPrivateKey ==
    AddNewRsaPrivateKeyOf({<<"ID_IPV4_ADDR", "192.168.1.2">>}, {<<"private_key_2", 1024>>})

GetInitConfigForHost ==
    /\ ~freed
    /\ \E my_host \in Hosts, other_host \in Hosts :
           ret' = Call("get_init_config_for_host", <<my_host, other_host>>,
                       get_init_config_for_host(this, my_host, other_host))
    /\ UNCHANGED <<this, freed, destroy_log, threads>>

\* configurations that differ in their name, over two policies of each kind
AddNamedConfiguration == AddNewConfigurationOf(Names, {0, 4}, {0, 1})

GetInitConfigForName ==
    /\ ~freed
    /\ \E name \in Names :
           ret' = Call("get_init_config_for_name", <<name>>,
                       get_init_config_for_name(this, name))
    /\ UNCHANGED <<this, freed, destroy_log, threads>>

GetSaConfigForName ==
    /\ ~freed
    /\ \E name \in Names :
           ret' = Call("get_sa_config_for_name", <<name>>,
                       get_sa_config_for_name(this, name))
    /\ UNCHANGED <<this, freed, destroy_log, threads>>

GetSaConfigForInitConfigAndId ==
    /\ ~freed
    /\ \E init_config \in {0, 1, 4}, other_id \in Identifications,
          my_id \in Identifications \cup {NULL_ID} :
           ret' = Call("get_sa_config_for_init_config_and_id",
                       <<init_config, other_id, my_id>>,
                       get_sa_config_for_init_config_and_id(this, init_config, other_id, my_id))
    /\ UNCHANGED <<this, freed, destroy_log, threads>>

GetSharedSecret ==
    /\ ~freed
    /\ \E identification \in Identifications :
           ret' = Call("get_shared_secret", <<identification>>,
                       get_shared_secret(this, identification))
    /\ UNCHANGED <<this, freed, destroy_log, threads>>

\* mutant: the lookup takes the entries of the identification out of the list
GetRsaPublicKeyConsuming ==
    /\ ~freed
    /\ \E identification \in Identifications :
           /\ ret' = Call("get_rsa_public_key", <<identification>>,
                          get_rsa_public_key(this, identification))
           /\ this' = [this EXCEPT !.rsa_public_keys =
                          SelectSeq(@, LAMBDA e : e.identification # identification)]
    /\ UNCHANGED <<freed, destroy_log, threads>>

GetRsaPublicKey ==
    /\ ~freed
    /\ \E identification \in Identifications :
           ret' = Call("get_rsa_public_key", <<identification>>,
                       get_rsa_public_key(this, identification))
    /\ UNCHANGED <<this, freed, destroy_log, threads>>

GetRsaPrivateKey ==
    /\ ~freed
    /\ \E identification \in Identifications :
           ret' = Call("get_rsa_private_key", <<identification>>,
                       get_rsa_private_key(this, identification))
    /\ UNCHANGED <<this, freed, destroy_log, threads>>

GetRetransmitTimeout ==
    /\ ~freed
    /\ \E retransmit_count \in UInts :
           \E result \in get_retransmit_timeout(this, retransmit_count) :
               ret' = Call("get_retransmit_timeout", <<retransmit_count>>, result)
    /\ UNCHANGED <<this, freed, destroy_log, threads>>

GetHalfOpenIkeSaTimeout ==
    /\ ~freed
    /\ ret' = Call("get_half_open_ike_sa_timeout", <<>>,
                   Success(get_half_open_ike_sa_timeout(this)))
    /\ UNCHANGED <<this, freed, destroy_log, threads>>

Destroy ==
    /\ ~freed
    /\ destroy_log' = destroy(this)
    /\ this' = destroyed(this)
    /\ freed' = TRUE
    /\ ret' = Call("destroy", <<>>, Void)
    /\ UNCHANGED threads

(***************************************************************************)
(* Specifications.                                                         *)
(***************************************************************************)
(* Lookups run by worker threads, one pass of the while loop per step.     *)
(* The manager has no lock: every pass reads the shared lists directly.    *)
(***************************************************************************)
Idle == [pc |-> "idle"]

\* the lookups the worker threads issue
ThreadCalls ==
    {[op |-> "get_init_config_for_host", args |-> <<"192.168.1.2", other_host>>] :
        other_host \in Hosts}
    \cup {[op |-> op, args |-> <<name>>] :
            op \in {"get_init_config_for_name", "get_sa_config_for_name"},
            name \in {"localhost", "peer"}}
    \cup {[op |-> "get_sa_config_for_init_config_and_id", args |-> <<ic, ID_LOCALHOST, my_id>>] :
            ic \in {0, 7}, my_id \in {NULL_ID, ID_LOCALHOST}}
    \cup {[op |-> op, args |-> <<id>>] :
            op \in {"get_shared_secret", "get_rsa_public_key", "get_rsa_private_key"},
            id \in {ID_LOCALHOST, ID_PEER}}

\* iterator_t of linked_list_t: the iterator is an object of the calling
\* thread that holds a position; has_next and current read the list and
\* leave it as it is
iterator_has_next(list, i) == i <= Len(list)

iterator_current(list, i) == list[i]

\* the list a lookup creates its iterator on
iterated_list(m, op) ==
    CASE op = "get_shared_secret" -> m.preshared_secrets
      [] op = "get_rsa_public_key" -> m.rsa_public_keys
      [] op = "get_rsa_private_key" -> m.rsa_private_keys
      [] OTHER -> m.configurations

\* one pass of a lookup's while loop, on the entry the iterator is at
loop_body(op, args, entry) ==
    CASE op = "get_init_config_for_host" ->
             init_config_for_host_from(<<entry>>, 1, args[1], args[2])
      [] op = "get_init_config_for_name" -> init_config_for_name_from(<<entry>>, 1, args[1])
      [] op = "get_sa_config_for_name" -> sa_config_for_name_from(<<entry>>, 1, args[1])
      [] op = "get_sa_config_for_init_config_and_id" ->
             sa_config_from(<<entry>>, 1, args[1], args[2], args[3])
      [] op = "get_shared_secret" -> shared_secret_from(<<entry>>, 1, args[1])
      [] op = "get_rsa_public_key" -> rsa_public_key_from(<<entry>>, 1, args[1])
      [] op = "get_rsa_private_key" -> rsa_private_key_from(<<entry>>, 1, args[1])

\* the same lookup as one uninterrupted call
lookup(m, op, args) ==
    CASE op = "get_init_config_for_host" -> get_init_config_for_host(m, args[1], args[2])
      [] op = "get_init_config_for_name" -> get_init_config_for_name(m, args[1])
      [] op = "get_sa_config_for_name" -> get_sa_config_for_name(m, args[1])
      [] op = "get_sa_config_for_init_config_and_id" ->
             get_sa_config_for_init_config_and_id(m, args[1], args[2], args[3])
      [] op = "get_shared_secret" -> get_shared_secret(m, args[1])
      [] op = "get_rsa_public_key" -> get_rsa_public_key(m, args[1])
      [] op = "get_rsa_private_key" -> get_rsa_private_key(m, args[1])

\* mutant: the add operations stay callable after the manager was handed out
ManagerShared == TRUE

\* configuration_manager_create has not returned: no thread has the manager
ManagerUnpublished == \A t \in Threads : threads[t].pc = "unstarted"

\* the add_new_* calls made while the manager is being created
LoadPeerConfiguration == ManagerUnpublished /\ AddPeerConfiguration

LoadPeerPresharedSecret == ManagerUnpublished /\ AddPeerPresharedSecret

\* return (&this->public): the threads get the manager
ReturnManager ==
    /\ ManagerUnpublished
    /\ threads' = [t \in Threads |-> Idle]
    /\ UNCHANGED <<this, freed, ret, destroy_log>>

\* a thread enters a lookup: status = NOT_FOUND, iterator before the first entry
ThreadCall ==
    /\ ~freed
    /\ \E t \in Threads, call \in ThreadCalls :
           /\ threads[t].pc = "idle"
           /\ threads' = [threads EXCEPT ![t] =
                  [pc |-> "scan", op |-> call.op, args |-> call.args, i |-> 1,
                   status |-> "NOT_FOUND", out |-> <<>>]]
    /\ UNCHANGED <<this, freed, ret, destroy_log>>

\* has_next / current and the loop body on that entry: the loop ends when
\* the list is exhausted or the entry is accepted
ThreadIterate ==
    /\ \E t \in Threads :
           /\ threads[t].pc = "scan"
           /\ LET frame == threads[t]
                  list == iterated_list(this, frame.op)
              IN  IF ~iterator_has_next(list, frame.i)
                  THEN threads' = [threads EXCEPT ![t].pc = "done"]
                  ELSE LET one == loop_body(frame.op, frame.args,
                                            iterator_current(list, frame.i))
                       IN  IF one.status = "SUCCESS"
                           THEN threads' = [threads EXCEPT ![t].pc = "done",
                                                ![t].status = "SUCCESS",
                                                ![t].out = one.out]
                           ELSE threads' = [threads EXCEPT ![t].i = frame.i + 1]
    /\ UNCHANGED <<this, freed, ret, destroy_log>>

\* the lookup returns its status to the caller
ThreadReturn ==
    /\ \E t \in Threads :
           /\ threads[t].pc = "done"
           /\ threads' = [threads EXCEPT ![t] = Idle]
    /\ UNCHANGED <<this, freed, ret, destroy_log>>

(***************************************************************************)
NextHost == AddHostConfiguration \/ GetInitConfigForHost \/ Destroy

SpecHost == Init /\ [][NextHost]_vars

NextSa == AddSaConfiguration \/ GetSaConfigForInitConfigAndId \/ Destroy

SpecSa == Init /\ [][NextSa]_vars

NextCred ==
    \/ AddNewPresharedSecret
    \/ AddNewRsaPublicKey
    \/ AddNewRsaPrivateKey
    \/ GetSharedSecret
    \/ GetRsaPublicKey
    \/ GetRsaPrivateKey
    \/ Destroy

SpecCred == Init /\ [][NextCred]_vars

NextTiming == GetRetransmitTimeout \/ GetHalfOpenIkeSaTimeout \/ Destroy

SpecTiming == InitTiming /\ [][NextTiming]_vars

NextName ==
    AddNamedConfiguration \/ GetInitConfigForName \/ GetSaConfigForName \/ Destroy

SpecName == Init /\ [][NextName]_vars

\* the operations of configuration_manager_t, the public interface
NextPublic ==
    \/ GetInitConfigForHost
    \/ GetInitConfigForName
    \/ GetSaConfigForName
    \/ GetSaConfigForInitConfigAndId
    \/ GetSharedSecret
    \/ GetRsaPublicKey
    \/ GetRsaPrivateKey
    \/ GetRetransmitTimeout
    \/ GetHalfOpenIkeSaTimeout
    \/ Destroy

SpecPublic == InitTiming /\ [][NextPublic]_vars

\* every operation, with the additions of a loader
Next ==
    \/ AddPeerConfiguration
    \/ AddPeerPresharedSecret
    \/ AddPeerRsaPublicKey
    \/ AddPeerRsaPrivateKey
    \/ NextPublic

Spec == Init /\ [][Next]_vars

\* lookups of several threads, interleaved pass by pass
NextConcurrent ==
    \/ LoadPeerConfiguration
    \/ LoadPeerPresharedSecret
    \/ ReturnManager
    \/ ThreadCall
    \/ ThreadIterate
    \/ ThreadReturn

SpecConcurrent == Init /\ [][NextConcurrent]_vars

(***************************************************************************)
(* Properties.                                                             *)
(***************************************************************************)
Min(S) == CHOOSE x \in S : \A y \in S : x <= y

NoDuplicates(list) == \A i, j \in 1..Len(list) : i # j => list[i] # list[j]

\* the positions of destroy_log where `kind` was destroyed for `object`
DestroyCalls(kind, object) ==
    {i \in 1..Len(destroy_log) :
        destroy_log[i].kind = kind /\ destroy_log[i].object = object}

\* the configuration entries destroy() released
DestroyedEntries ==
    {i \in 1..Len(destroy_log) : destroy_log[i].kind = "configuration_entry_t"}

\* C1: whatever add_new_configuration calls were made, also with the same
\* init_config or sa_config object passed several times, each policy object is
\* in its owned list exactly once, every policy an entry refers to is owned,
\* and destroy() destroys each policy that an entry referred to exactly once
\* and no other one.
C1_PoliciesOwnedAndDestroyedOnce ==
    /\ ~freed =>
        /\ NoDuplicates(this.init_configs)
        /\ NoDuplicates(this.sa_configs)
        /\ \A e \in Range(this.configurations) :
               /\ e.init_config \in Range(this.init_configs)
               /\ e.sa_config \in Range(this.sa_configs)
    /\ freed =>
        /\ \A ic \in InitConfigObjects :
               Cardinality(DestroyCalls("init_config_t", ic)) =
                   IF \E i \in DestroyedEntries : destroy_log[i].object.init_config = ic
                   THEN 1 ELSE 0
        /\ \A sc \in SaConfigObjects :
               Cardinality(DestroyCalls("sa_config_t", sc)) =
                   IF \E i \in DestroyedEntries : destroy_log[i].object.sa_config = sc
                   THEN 1 ELSE 0

\* C1 witness: destroy() ran on a registry where two entries shared both their
\* init_config and their sa_config and a third had an equal but different
\* init_config object.
C1_Witness ==
    /\ freed
    /\ \E i, j, k \in DestroyedEntries :
           /\ i < j
           /\ destroy_log[i].object.init_config = destroy_log[j].object.init_config
           /\ destroy_log[i].object.sa_config = destroy_log[j].object.sa_config
           /\ destroy_log[k].object.init_config # destroy_log[i].object.init_config
           /\ init_config_my_host(destroy_log[k].object.init_config)
                  = init_config_my_host(destroy_log[i].object.init_config)
           /\ init_config_other_host(destroy_log[k].object.init_config)
                  = init_config_other_host(destroy_log[i].object.init_config)

\* an entry's configured hosts match the observed pair (my_host, other_host)
HostPairMatches(entry, my_host, other_host) ==
    /\ \/ init_config_other_host(entry.init_config) = other_host
       \/ init_config_other_host(entry.init_config) = "0.0.0.0"
    /\ \/ init_config_my_host(entry.init_config) = "0.0.0.0"
       \/ init_config_my_host(entry.init_config) = my_host

HostMatching(my_host, other_host) ==
    {i \in 1..Len(this.configurations) :
        HostPairMatches(this.configurations[i], my_host, other_host)}

\* C2: when some entry matches the observed host pair, get_init_config_for_host
\* returns SUCCESS with the init_config of the first such entry in
\* registration order.
C2_FirstMatchingHostEntry ==
    ret.op = "get_init_config_for_host" =>
        LET matching == HostMatching(ret.args[1], ret.args[2])
        IN  matching # {} =>
                /\ ret.status = "SUCCESS"
                /\ ret.out = <<this.configurations[Min(matching)].init_config>>

\* C2 witness: an entry with the exact remote host R and a default-route local
\* host is registered before an entry with default-route hosts on both sides,
\* the query's remote host is R, and the earlier entry's init_config came back.
C2_Witness ==
    /\ ret.op = "get_init_config_for_host"
    /\ ret.args[2] = "192.168.1.2"
    /\ \E i, j \in 1..Len(this.configurations) :
           /\ i < j
           /\ i \in HostMatching(ret.args[1], ret.args[2])
           /\ j \in HostMatching(ret.args[1], ret.args[2])
           /\ \A k \in HostMatching(ret.args[1], ret.args[2]) : i <= k
           /\ init_config_other_host(this.configurations[i].init_config) = "192.168.1.2"
           /\ init_config_my_host(this.configurations[i].init_config) = "0.0.0.0"
           /\ init_config_other_host(this.configurations[j].init_config) = "0.0.0.0"
           /\ init_config_my_host(this.configurations[j].init_config) = "0.0.0.0"
           /\ ret.status = "SUCCESS"
           /\ ret.out = <<this.configurations[i].init_config>>

\* C3: when no entry's configured remote host equals the observed remote host
\* and no entry's configured remote host is a default route,
\* get_init_config_for_host returns NOT_FOUND, whatever the local hosts are.
C3_NoRemoteNoResult ==
    (/\ ret.op = "get_init_config_for_host"
     /\ \A e \in Range(this.configurations) :
            /\ init_config_other_host(e.init_config) # ret.args[2]
            /\ init_config_other_host(e.init_config) # "0.0.0.0")
    => ret.status = "NOT_FOUND"

\* C3 witness: such a query on a registry with an entry whose local host is a
\* default route and an entry whose local host equals the observed local host.
C3_Witness ==
    /\ ret.op = "get_init_config_for_host"
    /\ \A e \in Range(this.configurations) :
           /\ init_config_other_host(e.init_config) # ret.args[2]
           /\ init_config_other_host(e.init_config) # "0.0.0.0"
    /\ \E e \in Range(this.configurations) :
           init_config_my_host(e.init_config) = "0.0.0.0"
    /\ \E e \in Range(this.configurations) :
           /\ init_config_my_host(e.init_config) = ret.args[1]
           /\ ret.args[1] # "0.0.0.0"
    /\ ret.status = "NOT_FOUND"

\* the entries with the very init_config object whose remote identity is other_id
RemoteIdMatching(init_config, other_id) ==
    {i \in 1..Len(this.configurations) :
        /\ this.configurations[i].init_config = init_config
        /\ sa_config_other_id(this.configurations[i].sa_config) = other_id}

\* C4: with my_id NULL, get_sa_config_for_init_config_and_id returns the
\* sa_config of the first entry whose init_config is the supplied object and
\* whose remote identity equals other_id, and NOT_FOUND when there is none: an
\* entry with another init_config object is never selected.
C4_NullMyIdFirstRemoteMatch ==
    (ret.op = "get_sa_config_for_init_config_and_id" /\ ret.args[3] = NULL_ID) =>
        LET matching == RemoteIdMatching(ret.args[1], ret.args[2])
        IN  IF matching = {}
            THEN ret.status = "NOT_FOUND"
            ELSE /\ ret.status = "SUCCESS"
                 /\ ret.out = <<this.configurations[Min(matching)].sa_config>>

\* C4 witness: my_id is NULL, two entries with different sa_config objects
\* match, an earlier entry has an equal remote identity and an equal but
\* different init_config object, and the first matching sa_config came back.
C4_Witness ==
    /\ ret.op = "get_sa_config_for_init_config_and_id"
    /\ ret.args[3] = NULL_ID
    /\ LET matching == RemoteIdMatching(ret.args[1], ret.args[2])
       IN  /\ Cardinality(matching) >= 2
           /\ \E i, j \in matching :
                  this.configurations[i].sa_config # this.configurations[j].sa_config
           /\ \E k \in 1..Len(this.configurations) :
                  /\ k < Min(matching)
                  /\ this.configurations[k].init_config # ret.args[1]
                  /\ sa_config_other_id(this.configurations[k].sa_config) = ret.args[2]
           /\ ret.out = <<this.configurations[Min(matching)].sa_config>>

\* C5: with my_id given, when no entry with the supplied init_config has a
\* local identity equal to my_id, get_sa_config_for_init_config_and_id returns
\* NOT_FOUND, also when an entry matches on init_config and remote identity.
C5_MyIdUnmatchedNotFound ==
    (/\ ret.op = "get_sa_config_for_init_config_and_id"
     /\ ret.args[3] # NULL_ID
     /\ \A e \in Range(this.configurations) :
            e.init_config = ret.args[1] => sa_config_my_id(e.sa_config) # ret.args[3])
    => ret.status = "NOT_FOUND"

\* C5 witness: such a query where an entry matches on init_config and remote
\* identity.
C5_Witness ==
    /\ ret.op = "get_sa_config_for_init_config_and_id"
    /\ ret.args[3] # NULL_ID
    /\ \A e \in Range(this.configurations) :
           e.init_config = ret.args[1] => sa_config_my_id(e.sa_config) # ret.args[3]
    /\ RemoteIdMatching(ret.args[1], ret.args[2]) # {}
    /\ ret.status = "NOT_FOUND"

\* C6: every call of get_retransmit_timeout that is not rejected returns
\* SUCCESS with timeout = first_retransmit_timeout * 2^retransmit_count as an
\* unsigned value of the word width.
C6_TimeoutDoubles ==
    (ret.op = "get_retransmit_timeout" /\ ret.status # "FAILED") =>
        /\ ret.status = "SUCCESS"
        /\ ret.out = <<(this.first_retransmit_timeout * 2 ^ ret.args[1]) % Modulus>>

\* C7: get_retransmit_timeout returns FAILED if and only if
\* max_retransmit_count is non-zero and retransmit_count is strictly greater
\* than it.
C7_FailedIffExceeded ==
    ret.op = "get_retransmit_timeout" =>
        (ret.status = "FAILED" <=>
            (this.max_retransmit_count # 0 /\ ret.args[1] > this.max_retransmit_count))

\* C7 witness: a count equal to a non-zero maximum got a timeout.
C7_Witness ==
    /\ ret.op = "get_retransmit_timeout"
    /\ this.max_retransmit_count # 0
    /\ ret.args[1] = this.max_retransmit_count
    /\ ret.status = "SUCCESS"

\* the identification an add_new_* call in ret was made for
AddedId == identification_create_from_string(ret.args[1], ret.args[2])

\* C8: after add_new_preshared_secret(A, S), where no entry for A was stored
\* before, get_shared_secret(A) returns SUCCESS with exactly the bytes of S,
\* and get_shared_secret of an identity different from every stored one returns
\* NOT_FOUND.
C8_SecretRoundTrip ==
    ret.op = "add_new_preshared_secret" =>
        /\ Cardinality({i \in 1..Len(this.preshared_secrets) :
               this.preshared_secrets[i].identification = AddedId}) = 1
           => get_shared_secret(this, AddedId) = Success(ret.args[3])
        /\ \A id \in Identifications :
               (\A e \in Range(this.preshared_secrets) : e.identification # id)
               => get_shared_secret(this, id) = NotFound

\* C9: the chunk stored by add_new_preshared_secret(..., S) has length
\* strlen(S) and holds the characters of S only, without the NUL termination.
C9_StoredSecretWithoutNul ==
    ret.op = "add_new_preshared_secret" =>
        LET entry == this.preshared_secrets[Len(this.preshared_secrets)]
        IN  /\ Len(entry.preshared_secret) = strlen(ret.args[3])
            /\ entry.preshared_secret = ret.args[3]

\* the positions of a credential list stored under an identification
StoredUnder(list, identification) ==
    {i \in 1..Len(list) : list[i].identification = identification}

\* a lookup of a credential list gave the first entry stored under the
\* identification asked for, and NOT_FOUND when there is none
FirstStored(list, material) ==
    LET stored == StoredUnder(list, ret.args[1])
    IN  IF stored = {}
        THEN ret.status = "NOT_FOUND"
        ELSE ret.status = "SUCCESS" /\ ret.out = <<material[Min(stored)]>>

CredentialLookupsFirstStored ==
    /\ ret.op = "get_shared_secret" =>
           FirstStored(this.preshared_secrets,
               [i \in 1..Len(this.preshared_secrets) |->
                   this.preshared_secrets[i].preshared_secret])
    /\ ret.op = "get_rsa_public_key" =>
           FirstStored(this.rsa_public_keys,
               [i \in 1..Len(this.rsa_public_keys) |-> this.rsa_public_keys[i].public_key])
    /\ ret.op = "get_rsa_private_key" =>
           FirstStored(this.rsa_private_keys,
               [i \in 1..Len(this.rsa_private_keys) |-> this.rsa_private_keys[i].private_key])

\* list' is list with one entry for the added identification put last
OneAppended(list, list2) ==
    /\ Len(list2) = Len(list) + 1
    /\ SubSeq(list2, 1, Len(list)) = list
    /\ list2[Len(list2)].identification = AddedId'

\* C10: the credential stores make no uniqueness check: every add_new_* call
\* appends one entry and keeps all earlier ones, also under an equal identity,
\* and each lookup returns the material of the first-inserted entry under the
\* identity asked for.
C10_NoUniquenessFirstInsertedWins ==
    [][/\ ret'.op = "add_new_preshared_secret" =>
              OneAppended(this.preshared_secrets, this'.preshared_secrets)
       /\ ret'.op = "add_new_rsa_public_key" =>
              OneAppended(this.rsa_public_keys, this'.rsa_public_keys)
       /\ ret'.op = "add_new_rsa_private_key" =>
              OneAppended(this.rsa_private_keys, this'.rsa_private_keys)
       /\ CredentialLookupsFirstStored']_vars

\* C10 witness: three preshared secrets are stored under one identity, the
\* first two different, and get_shared_secret returned the first one.
C10_Witness ==
    /\ ret.op = "get_shared_secret"
    /\ Cardinality(StoredUnder(this.preshared_secrets, ret.args[1])) >= 3
    /\ \E i, j \in StoredUnder(this.preshared_secrets, ret.args[1]) :
           /\ i < j
           /\ \A k \in StoredUnder(this.preshared_secrets, ret.args[1]) : i <= k
           /\ this.preshared_secrets[i].preshared_secret
                  # this.preshared_secrets[j].preshared_secret
           /\ ret.out = <<this.preshared_secrets[i].preshared_secret>>

\* the entries registered under a name
Named(name) ==
    {i \in 1..Len(this.configurations) : this.configurations[i].name = name}

\* C11: for the name asked for, get_init_config_for_name and
\* get_sa_config_for_name both return NOT_FOUND when no entry has exactly that
\* name, and otherwise both return SUCCESS with the init_config and the
\* sa_config of the first entry of that name in registration order.
C11_NameLookupsSameFirstEntry ==
    ret.op \in {"get_init_config_for_name", "get_sa_config_for_name"} =>
        LET name == ret.args[1]
            mine == IF ret.op = "get_init_config_for_name"
                    THEN get_init_config_for_name(this, name)
                    ELSE get_sa_config_for_name(this, name)
        IN  /\ ret.status = mine.status /\ ret.out = mine.out
            /\ IF Named(name) = {}
               THEN /\ get_init_config_for_name(this, name) = NotFound
                    /\ get_sa_config_for_name(this, name) = NotFound
               ELSE LET first == this.configurations[Min(Named(name))]
                    IN  /\ get_init_config_for_name(this, name) = Success(first.init_config)
                        /\ get_sa_config_for_name(this, name) = Success(first.sa_config)

\* C11 witness: two entries carry the name asked for, with different
\* init_configs and different sa_configs, and the sa_config of the first came back.
C11_Witness ==
    /\ ret.op = "get_sa_config_for_name"
    /\ \E i, j \in Named(ret.args[1]) :
           /\ i < j
           /\ \A k \in Named(ret.args[1]) : i <= k
           /\ this.configurations[i].init_config # this.configurations[j].init_config
           /\ this.configurations[i].sa_config # this.configurations[j].sa_config
           /\ ret.status = "SUCCESS"
           /\ ret.out = <<this.configurations[i].sa_config>>

\* the manager is as configuration_manager_create returned it
Fresh ==
    /\ ~freed
    /\ this = configuration_manager_create(this.first_retransmit_timeout,
                  this.max_retransmit_count, this.half_open_ike_sa_timeout)

\* C12: on a manager as configuration_manager_create returned it,
\* get_init_config_for_host for the host pair (127.0.0.1, 127.0.0.1) and
\* get_rsa_public_key for the identity (ID_IPV4_ADDR, 127.0.0.1) return SUCCESS.
C12_DefaultBootstrap ==
    Fresh =>
        /\ (ret.op = "get_init_config_for_host" /\ ret.args = <<"127.0.0.1", "127.0.0.1">>)
               => ret.status = "SUCCESS"
        /\ (ret.op = "get_rsa_public_key" /\ ret.args[1] = ID_LOCALHOST)
               => ret.status = "SUCCESS"

\* C12 witness: the loopback host pair was resolved on the fresh manager.
C12_Witness ==
    /\ Fresh
    /\ ret.op = "get_init_config_for_host"
    /\ ret.args = <<"127.0.0.1", "127.0.0.1">>
    /\ ret.status = "SUCCESS"
    /\ ret.out = <<0>>

PolicyKinds == {"sa_config_t", "init_config_t"}

CredentialKinds ==
    {"preshared_secret_entry_t", "rsa_private_key_entry_t", "rsa_public_key_entry_t"}

\* the positions of a log of destroy calls whose kind is one of kinds
LogPositions(log, kinds) == {i \in 1..Len(log) : log[i].kind \in kinds}

\* the objects of one kind a log of destroy calls released, in order
LogObjects(log, kind) ==
    LET F[i \in 0..Len(log)] ==
            IF i = 0 THEN <<>>
            ELSE IF log[i].kind = kind THEN Append(F[i - 1], log[i].object)
            ELSE F[i - 1]
    IN F[Len(log)]

AllEmpty(m) ==
    /\ m.configurations = <<>>
    /\ m.sa_configs = <<>>
    /\ m.init_configs = <<>>
    /\ m.preshared_secrets = <<>>
    /\ m.rsa_private_keys = <<>>
    /\ m.rsa_public_keys = <<>>

\* C13: a destroy() step releases every item of the six collections, every
\* configuration entry before any owned sa_config or init_config, every owned
\* policy before any credential entry, and leaves all six collections empty.
C13_TeardownOrder ==
    [][(~freed /\ freed') =>
        /\ LogObjects(destroy_log', "configuration_entry_t") = this.configurations
        /\ LogObjects(destroy_log', "sa_config_t") = this.sa_configs
        /\ LogObjects(destroy_log', "init_config_t") = this.init_configs
        /\ LogObjects(destroy_log', "preshared_secret_entry_t") = this.preshared_secrets
        /\ LogObjects(destroy_log', "rsa_private_key_entry_t") = this.rsa_private_keys
        /\ LogObjects(destroy_log', "rsa_public_key_entry_t") = this.rsa_public_keys
        /\ \A i \in LogPositions(destroy_log', {"configuration_entry_t"}) :
               \A j \in LogPositions(destroy_log', PolicyKinds) : i < j
        /\ \A i \in LogPositions(destroy_log', PolicyKinds) :
               \A j \in LogPositions(destroy_log', CredentialKinds) : i < j
        /\ AllEmpty(this')]_vars

\* C13 witness: destroy() ran on a registry with three configuration entries,
\* two policies of each kind and at least one credential of each kind.
C13_Witness ==
    /\ freed
    /\ Cardinality(LogPositions(destroy_log, {"configuration_entry_t"})) = 3
    /\ Cardinality(LogPositions(destroy_log, {"sa_config_t"})) = 2
    /\ Cardinality(LogPositions(destroy_log, {"init_config_t"})) = 2
    /\ \A k \in CredentialKinds : LogPositions(destroy_log, {k}) # {}
    /\ AllEmpty(this)

\* the results of the other two credential lookups are the same for every
\* identification in both managers
SameSecrets(m1, m2) ==
    \A id \in Identifications : get_shared_secret(m1, id) = get_shared_secret(m2, id)

SamePublicKeys(m1, m2) ==
    \A id \in Identifications : get_rsa_public_key(m1, id) = get_rsa_public_key(m2, id)

SamePrivateKeys(m1, m2) ==
    \A id \in Identifications : get_rsa_private_key(m1, id) = get_rsa_private_key(m2, id)

\* the material each kind's add operation can store
SecretMaterial == {memcpy(s, strlen(s) + 1) : s \in Secrets}

PublicKeyMaterial == {rsa_key_create(k[1], k[2]) : k \in PublicKeys}

PrivateKeyMaterial == {rsa_key_create(k[1], k[2]) : k \in PrivateKeys}

\* C14: the three credential kinds use separate indices: an add of one kind
\* leaves the result of every lookup of the two other kinds as it was, for
\* every identity, and a successful lookup of one kind returns material its
\* own kind's add operation stored.
C14_SeparateIndices ==
    [][/\ ret'.op = "add_new_preshared_secret" =>
              SamePublicKeys(this, this') /\ SamePrivateKeys(this, this')
       /\ ret'.op = "add_new_rsa_public_key" =>
              SameSecrets(this, this') /\ SamePrivateKeys(this, this')
       /\ ret'.op = "add_new_rsa_private_key" =>
              SameSecrets(this, this') /\ SamePublicKeys(this, this')
       /\ (ret'.op = "get_shared_secret" /\ ret'.status = "SUCCESS") =>
              ret'.out[1] \in SecretMaterial
       /\ (ret'.op = "get_rsa_public_key" /\ ret'.status = "SUCCESS") =>
              ret'.out[1] \in PublicKeyMaterial
       /\ (ret'.op = "get_rsa_private_key" /\ ret'.status = "SUCCESS") =>
              ret'.out[1] \in PrivateKeyMaterial]_vars

\* C14 witness: an RSA public key and a preshared secret are stored under an
\* identity that has no RSA private key, and get_rsa_private_key of that
\* identity returned NOT_FOUND.
C14_Witness ==
    /\ ret.op = "get_rsa_private_key"
    /\ ret.args[1] = ID_PEER
    /\ StoredUnder(this.rsa_public_keys, ID_PEER) # {}
    /\ StoredUnder(this.preshared_secrets, ID_PEER) # {}
    /\ StoredUnder(this.rsa_private_keys, ID_PEER) = {}
    /\ ret.status = "NOT_FOUND"

\* C15: every lookup a thread finishes, however its passes were interleaved
\* with the passes of the other threads' lookups, has the status and the out
\* value of the same lookup run as one uninterrupted call; and the manager
\* changes only while no thread has it, so no mutation is interleaved with a
\* lookup.
C15_ConcurrentLookupsAsSequential ==
    [][/\ \A t \in Threads :
              threads'[t].pc = "done" =>
                  [status |-> threads'[t].status, out |-> threads'[t].out]
                      = lookup(this', threads'[t].op, threads'[t].args)
       /\ this' # this => \A t \in Threads : threads[t].pc = "unstarted"]_vars

\* C15 witness: one thread has finished a lookup with SUCCESS at the second
\* entry or later while another thread is in the middle of a scan of the
\* same list.
C15_Witness ==
    \E t1, t2 \in Threads :
        /\ t1 # t2
        /\ threads[t1].pc = "done"
        /\ threads[t1].status = "SUCCESS"
        /\ threads[t1].i >= 2
        /\ threads[t2].pc = "scan"
        /\ threads[t2].i >= 2
        /\ threads[t2].i <= Len(iterated_list(this, threads[t2].op))
        /\ iterated_list(this, threads[t1].op) = iterated_list(this, threads[t2].op)

\* entry i has a default-route remote host and a local host that is a default
\* route or the observed one, and no entry registered before it matches
FirstMatchIsWildcard(i, my_host, other_host) ==
    LET entry == this.configurations[i]
    IN  /\ is_default_route(init_config_other_host(entry.init_config))
        /\ \/ is_default_route(init_config_my_host(entry.init_config))
           \/ ip_is_equal(init_config_my_host(entry.init_config), my_host)
        /\ \A k \in 1..(i - 1) : k \notin HostMatching(my_host, other_host)

\* C16: get_init_config_for_host does not rank entries by specificity: when
\* the first matching entry in registration order has a default-route remote
\* host, its init_config is returned, whatever entries with exactly the
\* observed remote host are registered after it.
C16_RegistrationOrderNotSpecificity ==
    ret.op = "get_init_config_for_host" =>
        \A i \in 1..Len(this.configurations) :
            FirstMatchIsWildcard(i, ret.args[1], ret.args[2]) =>
                /\ ret.status = "SUCCESS"
                /\ ret.out = <<this.configurations[i].init_config>>

\* C16 witness: a wildcard-remote entry is the first match, a later entry has
\* exactly the observed remote host, a matching local host and another
\* init_config, and the wildcard entry's init_config came back.
C16_Witness ==
    /\ ret.op = "get_init_config_for_host"
    /\ ~is_default_route(ret.args[2])
    /\ \E i, j \in 1..Len(this.configurations) :
           /\ i < j
           /\ FirstMatchIsWildcard(i, ret.args[1], ret.args[2])
           /\ init_config_other_host(this.configurations[j].init_config) = ret.args[2]
           /\ j \in HostMatching(ret.args[1], ret.args[2])
           /\ this.configurations[j].init_config # this.configurations[i].init_config
           /\ ret.status = "SUCCESS"
           /\ ret.out = <<this.configurations[i].init_config>>

\* the entries with the very init_config object whose remote identity is
\* other_id and whose local identity is my_id
BothIdsMatching(init_config, other_id, my_id) ==
    {i \in RemoteIdMatching(init_config, other_id) :
        sa_config_my_id(this.configurations[i].sa_config) = my_id}

\* C17: with my_id given, get_sa_config_for_init_config_and_id returns the
\* sa_config of the first entry that matches on init_config, remote identity
\* and local identity, also when entries before it match on init_config and
\* remote identity and differ in the local identity.
C17_LocalMismatchContinuesScan ==
    (ret.op = "get_sa_config_for_init_config_and_id" /\ ret.args[3] # NULL_ID) =>
        \A i \in BothIdsMatching(ret.args[1], ret.args[2], ret.args[3]) :
            (\A k \in BothIdsMatching(ret.args[1], ret.args[2], ret.args[3]) : i <= k)
            => /\ ret.status = "SUCCESS"
               /\ ret.out = <<this.configurations[i].sa_config>>

\* C17 witness: an entry matches on init_config and remote identity but not on
\* the local identity, a later entry with another sa_config matches on all
\* three, and the later entry's sa_config came back.
C17_Witness ==
    /\ ret.op = "get_sa_config_for_init_config_and_id"
    /\ ret.args[3] # NULL_ID
    /\ \E k \in RemoteIdMatching(ret.args[1], ret.args[2]) :
       \E i \in BothIdsMatching(ret.args[1], ret.args[2], ret.args[3]) :
           /\ k < i
           /\ \A j \in BothIdsMatching(ret.args[1], ret.args[2], ret.args[3]) : i <= j
           /\ sa_config_my_id(this.configurations[k].sa_config) # ret.args[3]
           /\ this.configurations[k].sa_config # this.configurations[i].sa_config
           /\ ret.status = "SUCCESS"
           /\ ret.out = <<this.configurations[i].sa_config>>

LookupOps ==
    {"get_init_config_for_host", "get_init_config_for_name", "get_sa_config_for_name",
     "get_sa_config_for_init_config_and_id", "get_shared_secret", "get_rsa_public_key",
     "get_rsa_private_key", "get_retransmit_timeout", "get_half_open_ike_sa_timeout"}

\* C18: a call of one of the nine lookups changes no collection and no timing
\* parameter of the manager, and from configuration_manager_create until
\* destroy the manager holds exactly what load_default_config put there.
C18_LookupsPure ==
    [][/\ ret'.op \in LookupOps => (this' = this /\ freed' = freed)
       /\ ~freed' => this' = configuration_manager_create(this.first_retransmit_timeout,
                                 this.max_retransmit_count, this.half_open_ike_sa_timeout)]_vars

\* C18 witness: after a lookup that found a stored RSA private key the manager
\* still holds the default configuration.
C18_Witness ==
    /\ ret.op = "get_rsa_private_key"
    /\ ret.status = "SUCCESS"
    /\ ~freed
    /\ Len(this.configurations) = 1
    /\ Len(this.rsa_public_keys) = 1
    /\ Len(this.rsa_private_keys) = 1
    /\ this.preshared_secrets = <<>>

\* C19: for every registered entry and the host pair asked for, the loop body
\* of get_init_config_for_host accepts the entry exactly when (its remote host
\* equals the observed one or is a default route) and (its local host is a
\* default route or equals the observed one).
C19_TwoBranchTestIsOnePredicate ==
    ret.op = "get_init_config_for_host" =>
        \A i \in 1..Len(this.configurations) :
            (init_config_for_host_from(<<this.configurations[i]>>, 1,
                                       ret.args[1], ret.args[2]).status = "SUCCESS")
            <=> HostPairMatches(this.configurations[i], ret.args[1], ret.args[2])

\* C19 witness: the observed remote host is 0.0.0.0, so the entries with
\* remote host 0.0.0.0 take the exact-remote branch; an earlier one fails the
\* local check there and a later one passes it and is returned.
C19_Witness ==
    /\ ret.op = "get_init_config_for_host"
    /\ ret.args[2] = "0.0.0.0"
    /\ \E i, j \in 1..Len(this.configurations) :
           /\ init_config_other_host(this.configurations[i].init_config) = "0.0.0.0"
           /\ init_config_my_host(this.configurations[i].init_config) \notin {"0.0.0.0", ret.args[1]}
           /\ i \notin HostMatching(ret.args[1], ret.args[2])
           /\ init_config_other_host(this.configurations[j].init_config) = "0.0.0.0"
           /\ init_config_my_host(this.configurations[j].init_config) = ret.args[1]
           /\ i < j
           /\ ret.out = <<this.configurations[j].init_config>>

\* the values a successful lookup can take from the stored entries
StoredValues(op) ==
    CASE op \in {"get_init_config_for_host", "get_init_config_for_name"} ->
             {e.init_config : e \in Range(this.configurations)}
      [] op \in {"get_sa_config_for_name", "get_sa_config_for_init_config_and_id"} ->
             {e.sa_config : e \in Range(this.configurations)}
      [] op = "get_shared_secret" ->
             {e.preshared_secret : e \in Range(this.preshared_secrets)}
      [] op = "get_rsa_public_key" -> {e.public_key : e \in Range(this.rsa_public_keys)}
      [] op = "get_rsa_private_key" -> {e.private_key : e \in Range(this.rsa_private_keys)}

ListLookupOps == LookupOps \ {"get_retransmit_timeout", "get_half_open_ike_sa_timeout"}

\* C20: a lookup that returned NOT_FOUND, and get_retransmit_timeout when it
\* returned FAILED, wrote nothing through its out pointer; a call that
\* returned SUCCESS wrote it once, a list lookup with a value of a stored
\* entry.
C20_OutUntouchedOnFailure ==
    ret.op \in LookupOps \ {"get_half_open_ike_sa_timeout"} =>
        /\ ret.status \in {"NOT_FOUND", "FAILED"} => ret.out = <<>>
        /\ ret.status = "SUCCESS" => Len(ret.out) = 1
        /\ (ret.status = "SUCCESS" /\ ret.op \in ListLookupOps) =>
               ret.out[1] \in StoredValues(ret.op)
        /\ ret.op \in ListLookupOps => ret.status \in {"SUCCESS", "NOT_FOUND"}
        /\ ret.op = "get_retransmit_timeout" => ret.status \in {"SUCCESS", "FAILED"}

\* C20 witness: get_rsa_public_key compared two stored entries, found none
\* for the identity asked for, returned NOT_FOUND and left the out pointer
\* alone.
C20_Witness ==
    /\ ret.op = "get_rsa_public_key"
    /\ Len(this.rsa_public_keys) >= 2
    /\ StoredUnder(this.rsa_public_keys, ret.args[1]) = {}
    /\ ret.status = "NOT_FOUND"
    /\ ret.out = <<>>

====
